---- MODULE Spec2Model ----
(***************************************************************************)
(* Model of NeuroLocalPlannerWrapper (neuro_local_planner_wrapper.cpp):    *)
(* the laser-scan callback getLaserScanPoints, which clears the customized *)
(* costmap, rasterizes the scan and the global plan into it, publishes it  *)
(* and feeds the transition message's state_representation buffer, plus    *)
(* the planner interface calls that change the state it reads              *)
(* (initialize, setPlan, isGoalReached).                                   *)
(*                                                                         *)
(* Lengths are integers in grid units (one unit = 0.025 m, half a cell of  *)
(* 0.05 m); angles and yaw                                                 *)
(* are whole quarter turns, so that cos and sin are exact.  Doubles are    *)
(* modelled by exact rationals num/den.  Time stamps and frame ids are     *)
(* carried by no variable: no modelled branch reads them.                  *)
(***************************************************************************)
EXTENDS Integers, Sequences, FiniteSets, TLC

(***************************************************************************)
(* Bounds of the model.                                                    *)
(***************************************************************************)
\* scan updates explored by Spec (rich inputs)
MaxScans == 1
\* scan updates explored by SpecStack (inputs of the stacking claims)
MaxStackScans == 11
\* poses of a global plan handed to setPlan
MaxPlanLen == 2
\* samples of a laser scan
MaxSamples == 1
\* scan updates explored by SpecPath (inputs of the path claims)
MaxPathScans == 1
\* poses of a global plan handed to setPlan in SpecPath
MaxPathLen == 4
\* scan updates explored by SpecGrid (the 80 x 80 costmap)
MaxGridScans == 2
\* scan updates explored by SpecMap (the mapping from points to cells)
MaxMapScans == 1

(***************************************************************************)
(* Program constants.                                                      *)
(***************************************************************************)
Background == 70
Occupied == 100
PathStart == 50
PathRange == 50
Depth == 4
GoalTolerance == 8

(***************************************************************************)
(* Arithmetic of the callback.                                             *)
(***************************************************************************)

\* variant: halfway cases go toward zero
RoundHalfTowardZero(num, den) ==
    IF num >= 0 THEN (2 * num + den - 1) \div (2 * den)
    ELSE -((2 * (-num) + den - 1) \div (2 * den))

\* round() of <math.h> on the rational num/den (den > 0): nearest integer,
\* halfway cases away from zero.
Round(num, den) ==
    IF num >= 0 THEN (2 * num + den) \div (2 * den)
    ELSE -((2 * (-num) + den) \div (2 * den))

\* cos and sin of q quarter turns.
Cos4(q) == CASE q % 4 = 0 -> 1 [] q % 4 = 1 -> 0 [] q % 4 = 2 -> -1 [] OTHER -> 0

Sin4(q) == CASE q % 4 = 0 -> 0 [] q % 4 = 1 -> 1 [] q % 4 = 2 -> 0 [] OTHER -> -1

\* variant: the index is rounded without the 0.5 taken off
WorldToMapIndexNoHalf(p, origin, sizeInMeters, cells) ==
    Round((p - origin) * cells, sizeInMeters)

\* round(((p - origin)/sizeInMeters)*cells - 0.5)
\*   = round((2*(p - origin)*cells - sizeInMeters) / (2*sizeInMeters))
WorldToMapIndex(p, origin, sizeInMeters, cells) ==
    Round(2 * (p - origin) * cells - sizeInMeters, 2 * sizeInMeters)

\* the bounds test of both rasterization passes
InBounds(x, y, info) ==
    (x >= 0) /\ (y >= 0) /\ (x < info.width) /\ (y < info.height)

\* data[x + y*width], with TLA+ sequences starting at 1
DataIndex(x, y, info) == x + y * info.width + 1

\* a vector of n elements, all v (built by halves, so that a costmap of
\* thousands of cells needs a recursion of a dozen levels)
RECURSIVE Filled(_, _)
Filled(n, v) ==
    IF n <= 0 THEN << >>
    ELSE IF n = 1 THEN << v >>
    ELSE LET half == Filled(n \div 2, v)
         IN  half \o half \o (IF n % 2 = 1 THEN << v >> ELSE << >>)

\* std::vector<int8_t> data(width*height, 70)
ClearedData(info) == Filled(info.width * info.height, Background)

(***************************************************************************)
(* 2. Obstacle pass: laser scan points as occupied cells.                  *)
(***************************************************************************)

\* position of sample i (from 0) in the frame of the laser scan
ScanPoint(laser_scan, i) ==
    LET r == laser_scan.ranges[i + 1]
        a == laser_scan.angle_min + i * laser_scan.angle_increment
    IN  [x |-> r * Cos4(a), y |-> r * Sin4(a)]

\* translation by the transform's origin, then rotation by its yaw
ToRobotBaseFrame(pt, stamped_transform) ==
    LET x_temp == pt.x + stamped_transform.x
        y_temp == pt.y + stamped_transform.y
        yaw == stamped_transform.yaw
    IN  [x |-> Cos4(yaw) * x_temp - Sin4(yaw) * y_temp,
         y |-> Sin4(yaw) * x_temp + Cos4(yaw) * y_temp]

\* costmap coordinates of a point of the robot base frame
MapCoordinate(pt, info, costmap) ==
    [x |-> WorldToMapIndex(pt.x, info.origin_x, costmap.metersX, info.width),
     y |-> WorldToMapIndex(pt.y, info.origin_y, costmap.metersY, info.height)]

\* variant: a range equal to range_min or range_max is used too
RangeValidInclusive(laser_scan, i) ==
    (laser_scan.ranges[i + 1] >= laser_scan.range_min)
        /\ (laser_scan.ranges[i + 1] <= laser_scan.range_max)

\* a sample is used when its range lies strictly inside (range_min, range_max)
RangeValid(laser_scan, i) ==
    (laser_scan.ranges[i + 1] > laser_scan.range_min)
        /\ (laser_scan.ranges[i + 1] < laser_scan.range_max)

\* the body of the loop over the samples, for sample i
MarkSample(data, laser_scan, i, stamped_transform, info, costmap) ==
    LET c == MapCoordinate(ToRobotBaseFrame(ScanPoint(laser_scan, i), stamped_transform),
                           info, costmap)
    IN  IF RangeValid(laser_scan, i) /\ InBounds(c.x, c.y, info)
        THEN [data EXCEPT ![DataIndex(c.x, c.y, info)] = Occupied]
        ELSE data

RECURSIVE ObstacleLoop(_, _, _, _, _, _)
ObstacleLoop(data, laser_scan, i, stamped_transform, info, costmap) ==
    IF i >= Len(laser_scan.ranges) THEN data
    ELSE ObstacleLoop(MarkSample(data, laser_scan, i, stamped_transform, info, costmap),
                      laser_scan, i + 1, stamped_transform, info, costmap)

ObstaclePass(data, laser_scan, stamped_transform, info, costmap) ==
    ObstacleLoop(data, laser_scan, 0, stamped_transform, info, costmap)

(***************************************************************************)
(* 3. Path pass: the global plan as a gradient of cells.                   *)
(***************************************************************************)

\* tf_->transformPose: the pose in the frame of the costmap, under the
\* transform plan_transform from the plan's fixed frame (rotate, then translate)
TransformPose(pose, plan_transform) ==
    [x |-> Cos4(plan_transform.yaw) * pose.x - Sin4(plan_transform.yaw) * pose.y
             + plan_transform.x,
     y |-> Sin4(plan_transform.yaw) * pose.x + Cos4(plan_transform.yaw) * pose.y
             + plan_transform.y]

\* pose_robot_base_frame after the try block for one pose: transformPose
\* assigns it, and a TransformException leaves it as it was (the catch only
\* logs), so the previous pose's value, or the default (0,0), is still in it.
PoseAfterTry(pose_fixed_frame, pose_ok, plan_transform, pose_robot_base_frame) ==
    IF pose_ok THEN TransformPose(pose_fixed_frame, plan_transform)
    ELSE pose_robot_base_frame

\* the first loop over the plan: global_plan_map_coordinates
RECURSIVE PlanLoop(_, _, _, _, _, _, _, _)
PlanLoop(plan, k, pose_ok, plan_transform, pose_robot_base_frame, coords, info, costmap) ==
    IF k > Len(plan) THEN coords
    ELSE LET p == PoseAfterTry(plan[k], pose_ok[k], plan_transform, pose_robot_base_frame)
             c == MapCoordinate(p, info, costmap)
         IN  PlanLoop(plan, k + 1, pose_ok, plan_transform, p,
                      IF InBounds(c.x, c.y, info) THEN Append(coords, c) ELSE coords,
                      info, costmap)

PlanMapCoordinates(plan, pose_ok, plan_transform, info, costmap) ==
    PlanLoop(plan, 1, pose_ok, plan_transform, [x |-> 0, y |-> 0], <<>>, info, costmap)

\* variant: the value falls by 50/total per cell instead of 50/(total-1)
PathValuePerPoint(counter, total_plan_pixel_number, indeterminate) ==
    IF total_plan_pixel_number = 1 THEN indeterminate
    ELSE PathStart - Round(counter * PathRange, total_plan_pixel_number)

\* 50 - round((double)counter/(double)(total-1)*50.0), stored into an int8_t.
\* With total = 1 the quotient is 0.0/0.0 = NaN and the conversion of NaN to
\* int8_t is undefined: indeterminate stands for whatever the build stores.
PathValue(counter, total_plan_pixel_number, indeterminate) ==
    IF total_plan_pixel_number = 1 THEN indeterminate
    ELSE PathStart - Round(counter * PathRange, total_plan_pixel_number - 1)

\* the second loop: one write per element of global_plan_map_coordinates
RECURSIVE PathLoop(_, _, _, _, _)
PathLoop(data, coords, counter, info, indeterminate) ==
    IF counter >= Len(coords) THEN data
    ELSE LET c == coords[counter + 1]
         IN  PathLoop([data EXCEPT ![DataIndex(c.x, c.y, info)] =
                           PathValue(counter, Len(coords), indeterminate)],
                      coords, counter + 1, info, indeterminate)

\* variant: the cells are written from the last one back to the first
RECURSIVE PathLoopDown(_, _, _, _, _)
PathLoopDown(data, coords, counter, info, indeterminate) ==
    IF counter < 0 THEN data
    ELSE LET c == coords[counter + 1]
         IN  PathLoopDown([data EXCEPT ![DataIndex(c.x, c.y, info)] =
                               PathValue(counter, Len(coords), indeterminate)],
                          coords, counter - 1, info, indeterminate)

PathPassFirstWins(data, coords, info, indeterminate) ==
    PathLoopDown(data, coords, Len(coords) - 1, info, indeterminate)

PathPass(data, coords, info, indeterminate) ==
    PathLoop(data, coords, 0, info, indeterminate)

(***************************************************************************)
(* 5. Buffer with consecutive costmaps.                                    *)
(***************************************************************************)

\* variant: the test lets one costmap more into the buffer
BufferFullOneLate(transition_msg) ==
    Len(transition_msg.state_representation)
        = transition_msg.width * transition_msg.height * (transition_msg.depth + 1)

\* the test of the buffer step
BufferFull(transition_msg) ==
    Len(transition_msg.state_representation)
        = transition_msg.width * transition_msg.height * transition_msg.depth

\* variant: the costmap is inserted at the front of the buffer
BufferStepNewestFirst(transition_msg, data) ==
    IF BufferFull(transition_msg)
    THEN [transition_msg EXCEPT !.seq = @ + 1, !.state_representation = << >>]
    ELSE [transition_msg EXCEPT !.state_representation = data \o @]

\* variant: publishing a full buffer leaves its sequence number as it was
BufferStepSeqStuck(transition_msg, data) ==
    IF BufferFull(transition_msg)
    THEN [transition_msg EXCEPT !.state_representation = << >>]
    ELSE [transition_msg EXCEPT !.state_representation = @ \o data]

\* transition_msg_ after the buffer step: a full buffer is published and
\* cleared (the current costmap is not added), otherwise the costmap is added
BufferStep(transition_msg, data) ==
    IF BufferFull(transition_msg)
    THEN [transition_msg EXCEPT !.seq = @ + 1, !.state_representation = <<>>]
    ELSE [transition_msg EXCEPT !.state_representation = @ \o data]

\* what transition_pub_ publishes in the buffer step
BufferPublished(transition_msg) ==
    IF BufferFull(transition_msg)
    THEN << [topic |-> "transition", seq |-> transition_msg.seq,
             data |-> transition_msg.state_representation] >>
    ELSE << >>

(***************************************************************************)
(* State.                                                                  *)
(***************************************************************************)
VARIABLES
    initialized_,                        \* initialize() has run
    uncaught_exception,                  \* an exception left a call uncaught
    costmap_,                            \* the costmap behind costmap_ros_
    is_customized_costmap_initialized_,
    global_plan_,
    goal_,
    customized_costmap_,                 \* header.seq, info and data
    transition_msg_,                     \* width, height, depth, header.seq, state_representation
    set_plan_result,                     \* what the last setPlan call did
    last_call,                           \* the call that ran last
    sink,                                \* messages published by the last call, in order
    scan_count,                          \* history: scan callbacks run so far
    costmap_log,                         \* history: the last Depth+1 published costmaps
    transition_log,                      \* history: scan numbers that published a transition
    last_run                             \* history: inputs and intermediates of the last scan callback

vars == << initialized_, uncaught_exception, costmap_, is_customized_costmap_initialized_,
           global_plan_, goal_, customized_costmap_, transition_msg_, set_plan_result,
           last_call, sink, scan_count, costmap_log, transition_log, last_run >>

\* a costmap_2d::Costmap2D as the wrapper reads it: size in cells, resolution
\* and size in units; the wrapper's constructor leaves costmap_ unset
NoCostmap == [cellsX |-> 0, cellsY |-> 0, resolution |-> 0, metersX |-> 0, metersY |-> 0]

Costmaps == { [cellsX |-> 3, cellsY |-> 2, resolution |-> 2, metersX |-> 6, metersY |-> 4] }

\* nav_msgs::OccupancyGrid(), default constructed
EmptyOccupancyGrid ==
    [seq |-> 0, width |-> 0, height |-> 0, resolution |-> 0,
     origin_x |-> 0, origin_y |-> 0, data |-> << >>]

\* neuro_local_planner_wrapper::Transition, default constructed
EmptyTransition ==
    [seq |-> 0, width |-> 0, height |-> 0, depth |-> 0, state_representation |-> << >>]

NoRun ==
    [laser_scan |-> [ranges |-> << >>, range_min |-> 0, range_max |-> 0,
                     angle_min |-> 0, angle_increment |-> 0],
     lookup_ok |-> TRUE, stamped_transform |-> [x |-> 0, y |-> 0, yaw |-> 0],
     plan |-> << >>, pose_ok |-> << >>, plan_transform |-> [x |-> 0, y |-> 0, yaw |-> 0],
     coords |-> << >>, cleared |-> << >>, after_obstacles |-> << >>,
     buffer_before |-> << >>]

Init ==
    /\ initialized_ = FALSE
    /\ uncaught_exception = FALSE
    /\ costmap_ = NoCostmap
    /\ is_customized_costmap_initialized_ = FALSE
    /\ global_plan_ = << >>
    /\ goal_ = [x |-> 0, y |-> 0]
    /\ customized_costmap_ = EmptyOccupancyGrid
    /\ transition_msg_ = EmptyTransition
    /\ set_plan_result = "none"
    /\ last_call = "none"
    /\ sink = << >>
    /\ scan_count = 0
    /\ costmap_log = << >>
    /\ transition_log = << >>
    /\ last_run = NoRun

(***************************************************************************)
(* Planner interface.                                                      *)
(***************************************************************************)

\* initialize(name, tf, costmap_ros)
initialize(costmap) ==
    /\ ~uncaught_exception
    /\ IF ~initialized_
       THEN /\ costmap_' = costmap
            /\ is_customized_costmap_initialized_' = FALSE
            /\ initialized_' = TRUE
       ELSE UNCHANGED << costmap_, is_customized_costmap_initialized_, initialized_ >>
    /\ last_call' = "initialize"
    /\ sink' = << >>
    /\ UNCHANGED << uncaught_exception, global_plan_, goal_, customized_costmap_,
                    transition_msg_, set_plan_result, scan_count, costmap_log,
                    transition_log, last_run >>

\* setPlan(orig_global_plan): orig_global_plan.at(size() - 1) throws
\* std::out_of_range on an empty plan, after global_plan_ was assigned
setPlan(orig_global_plan) ==
    /\ ~uncaught_exception
    /\ last_call' = "setPlan"
    /\ sink' = << >>
    /\ IF ~initialized_
       THEN /\ set_plan_result' = "false"
            /\ UNCHANGED << global_plan_, goal_, uncaught_exception >>
       ELSE /\ global_plan_' = orig_global_plan
            /\ IF Len(orig_global_plan) = 0
               THEN /\ uncaught_exception' = TRUE
                    /\ set_plan_result' = "out_of_range"
                    /\ UNCHANGED goal_
               ELSE /\ goal_' = orig_global_plan[Len(orig_global_plan)]
                    /\ set_plan_result' = "true"
                    /\ UNCHANGED uncaught_exception
    /\ UNCHANGED << initialized_, costmap_, is_customized_costmap_initialized_,
                    customized_costmap_, transition_msg_, scan_count, costmap_log,
                    transition_log, last_run >>

\* dist < 0.2 for the robot pose current_pose, with both sides doubled:
\* 2*dist = sqrt((2*(px - gx) + sizeX)^2 + (2*(py - gy) + sizeY)^2)
GoalDistanceReached(current_pose, goal, costmap) ==
    LET dx2 == 2 * (current_pose.x - goal.x) + costmap.metersX
        dy2 == 2 * (current_pose.y - goal.y) + costmap.metersY
    IN  dx2 * dx2 + dy2 * dy2 < (2 * GoalTolerance) * (2 * GoalTolerance)

\* isGoalReached(), the robot being at current_pose
isGoalReached(current_pose) ==
    /\ ~uncaught_exception
    /\ initialized_
    /\ last_call' = "isGoalReached"
    /\ IF GoalDistanceReached(current_pose, goal_, costmap_)
       THEN /\ sink' = << [topic |-> "new_round", seq |-> 0, data |-> << >>] >>
            /\ global_plan_' = << >>
       ELSE /\ sink' = << >>
            /\ UNCHANGED global_plan_
    /\ UNCHANGED << initialized_, uncaught_exception, costmap_,
                    is_customized_costmap_initialized_, goal_, customized_costmap_,
                    transition_msg_, set_plan_result, scan_count, costmap_log,
                    transition_log, last_run >>

(***************************************************************************)
(* The laser scan callback.                                                *)
(***************************************************************************)

\* variant: the origin is left at the frame's (0, 0)
initializeCustomizedCostmapOriginZero(costmap) ==
    LET info == [seq |-> 0,
                 width |-> costmap.cellsX,
                 height |-> costmap.cellsY,
                 resolution |-> costmap.resolution,
                 origin_x |-> 0,
                 origin_y |-> 0,
                 data |-> << >>]
    IN  [info EXCEPT !.data = ClearedData(info)]

\* initializeCustomizedCostmap(), up to its call of initializeTransitionMsg()
initializeCustomizedCostmap(costmap) ==
    LET info == [seq |-> 0,
                 width |-> costmap.cellsX,
                 height |-> costmap.cellsY,
                 resolution |-> costmap.resolution,
                 origin_x |-> -(costmap.metersX \div 2),
                 origin_y |-> -(costmap.metersY \div 2),
                 data |-> << >>]
    IN  [info EXCEPT !.data = ClearedData(info)]

\* initializeTransitionMsg()
initializeTransitionMsg(transition_msg, customized_costmap) ==
    [transition_msg EXCEPT !.width = customized_costmap.width,
                           !.height = customized_costmap.height,
                           !.depth = Depth,
                           !.seq = 0]

\* variant: clearing also moves the origin to the middle of the grid
CostmapAfterClearRecentred(is_initialized, customized_costmap, costmap) ==
    IF ~is_initialized THEN initializeCustomizedCostmap(costmap)
    ELSE [customized_costmap EXCEPT
            !.origin_x = 0, !.origin_y = 0,
            !.data = ClearedData(customized_costmap)]

\* 1. the costmap after the first step: initialized on the first scan,
\* cleared to the background value on every later one
CostmapAfterClear(is_initialized, customized_costmap, costmap) ==
    IF ~is_initialized THEN initializeCustomizedCostmap(costmap)
    ELSE [customized_costmap EXCEPT
            !.data = ClearedData(customized_costmap)]

\* the transition message after the first step
TransitionAfterClear(is_initialized, transition_msg, customized_costmap) ==
    IF ~is_initialized THEN initializeTransitionMsg(transition_msg, customized_costmap)
    ELSE transition_msg

\* variant: the buffer step runs before the costmap is published
CallbackPublicationsBufferFirst(customized_costmap, transition_msg) ==
    BufferPublished(transition_msg)
      \o << [topic |-> "customized_costmap", seq |-> customized_costmap.seq,
             data |-> customized_costmap.data] >>

\* 4. and 5.: the messages the callback publishes, in order: the customized
\* costmap as it is after the passes, then the transition if the buffer is full
CallbackPublications(customized_costmap, transition_msg) ==
    << [topic |-> "customized_costmap", seq |-> customized_costmap.seq,
        data |-> customized_costmap.data] >>
      \o BufferPublished(transition_msg)

\* the last n elements of a sequence
LastN(seq, n) == IF Len(seq) <= n THEN seq ELSE SubSeq(seq, Len(seq) - n + 1, Len(seq))

\* getLaserScanPoints(laser_scan).  lookup_ok: lookupTransform did not throw,
\* and stamped_transform is what it returned; when it throws (the catch only
\* logs), stamped_transform is read uninitialized and the parameter stands
\* for whatever it holds.
\* pose_ok[k]: waitForTransform/transformPose did not throw for pose k of the
\* plan, plan_transform being the transform from the plan's frame.
getLaserScanPoints(laser_scan, lookup_ok, stamped_transform, pose_ok, plan_transform, indeterminate) ==
    LET cleared == CostmapAfterClear(is_customized_costmap_initialized_,
                                     customized_costmap_, costmap_)
        transition == TransitionAfterClear(is_customized_costmap_initialized_,
                                           transition_msg_, cleared)
        after_obstacles == ObstaclePass(cleared.data, laser_scan, stamped_transform,
                                        cleared, costmap_)
        coords == PlanMapCoordinates(global_plan_, pose_ok, plan_transform,
                                     cleared, costmap_)
        finished == [cleared EXCEPT
                       !.data = PathPass(after_obstacles, coords, cleared, indeterminate)]
        out == CallbackPublications(finished, transition)
    IN  /\ ~uncaught_exception
        /\ initialized_
        /\ is_customized_costmap_initialized_' = TRUE
        /\ customized_costmap_' = [finished EXCEPT !.seq = @ + 1]
        /\ transition_msg_' = BufferStep(transition, finished.data)
        /\ last_call' = "getLaserScanPoints"
        /\ sink' = out
        /\ scan_count' = scan_count + 1
        /\ costmap_log' = LastN(Append(costmap_log,
                                       [scan |-> scan_count + 1, data |-> out[1].data]),
                                Depth + 1)
        /\ transition_log' = IF Len(out) > 1
                              THEN Append(transition_log, scan_count + 1)
                              ELSE transition_log
        /\ last_run' = [laser_scan |-> laser_scan,
                        lookup_ok |-> lookup_ok,
                        stamped_transform |-> stamped_transform,
                        plan |-> global_plan_,
                        pose_ok |-> pose_ok,
                        plan_transform |-> plan_transform,
                        coords |-> coords,
                        cleared |-> cleared.data,
                        after_obstacles |-> after_obstacles,
                        buffer_before |-> transition.state_representation]
        /\ UNCHANGED << initialized_, uncaught_exception, costmap_, global_plan_, goal_,
                        set_plan_result >>

(***************************************************************************)
(* Inputs.                                                                 *)
(***************************************************************************)
RECURSIVE SeqsOfLen(_, _)
SeqsOfLen(S, k) ==
    IF k = 0 THEN { << >> }
    ELSE { Append(q, e) : q \in SeqsOfLen(S, k - 1), e \in S }

SeqsUpTo(S, n) == UNION { SeqsOfLen(S, k) : k \in 0..n }

\* transforms the frame transformer may hand out: the identity, and a shift
\* by one unit followed by a quarter turn
Transforms == { [x |-> 0, y |-> 0, yaw |-> 0], [x |-> 1, y |-> 0, yaw |-> 1] }

\* laser scans: ranges at range_min, inside the window and at range_max,
\* samples a quarter turn apart
LaserScans ==
    { [ranges |-> r, range_min |-> 1, range_max |-> 3,
       angle_min |-> 0, angle_increment |-> 1] : r \in SeqsUpTo({1, 2, 3}, MaxSamples) }

\* plan poses in the plan's fixed frame: two that map into the grid under
\* the identity, and one beyond its edge
PlanPoses == { [x |-> -2, y |-> -1], [x |-> 2, y |-> 0], [x |-> 4, y |-> 0] }

Plans == SeqsUpTo(PlanPoses, MaxPlanLen)

PlanTransforms == { [x |-> 0, y |-> 0, yaw |-> 0], [x |-> 0, y |-> 0, yaw |-> 2] }

\* robot poses for isGoalReached
RobotPoses == { [x |-> 0, y |-> 0], [x |-> 8, y |-> 8] }

\* what the build may store for the undefined conversion of NaN to int8_t
IndeterminateInt8 == { 0, -128 }

(***************************************************************************)
(* Specifications.                                                         *)
(***************************************************************************)
ScanUpdate ==
    /\ scan_count < MaxScans
    /\ \E laser_scan \in LaserScans, lookup_ok \in BOOLEAN,
          stamped_transform \in Transforms,
          pose_ok \in SeqsOfLen(BOOLEAN, Len(global_plan_)),
          plan_transform \in PlanTransforms, indeterminate \in IndeterminateInt8 :
            getLaserScanPoints(laser_scan, lookup_ok, stamped_transform,
                               pose_ok, plan_transform, indeterminate)

Next ==
    \/ \E costmap \in Costmaps : initialize(costmap)
    \/ \E plan \in Plans : setPlan(plan)
    \/ \E current_pose \in RobotPoses : isGoalReached(current_pose)
    \/ ScanUpdate

Spec == Init /\ [][Next]_vars

\* The stacking behaviour over many scans: the plan is empty or one plan of
\* two poses, every scan is empty or has one return, every pose transforms,
\* and the transform lookup may fail (leaving the identity in place).
StackScans ==
    { [ranges |-> r, range_min |-> 1, range_max |-> 3,
       angle_min |-> 0, angle_increment |-> 1] : r \in { << >>, << 2 >> } }

StackPlans == { << [x |-> -2, y |-> -1], [x |-> 2, y |-> 0] >> }

StackScanUpdate ==
    /\ scan_count < MaxStackScans
    /\ \E laser_scan \in StackScans, lookup_ok \in BOOLEAN :
            getLaserScanPoints(laser_scan, lookup_ok, [x |-> 0, y |-> 0, yaw |-> 0],
                               Filled(Len(global_plan_), TRUE),
                               [x |-> 0, y |-> 0, yaw |-> 0], 0)

NextStack ==
    \/ \E costmap \in Costmaps : initialize(costmap)
    \/ \E plan \in StackPlans : setPlan(plan)
    \/ StackScanUpdate

SpecStack == Init /\ [][NextStack]_vars

\* The path pass over plans of up to MaxPathLen poses, three of them inside
\* the grid and one outside it.  The plan is installed before the scans
\* begin, every pose transforms, the lookup succeeds with the identity, and a
\* scan is empty or has one return (which falls on a cell of the plan).
PathPoses == PlanPoses \cup { [x |-> 0, y |-> 0] }

PathPlans == UNION { SeqsOfLen(PathPoses, k) : k \in 1..MaxPathLen }

PathSetPlan ==
    /\ scan_count = 0
    /\ \E plan \in PathPlans : setPlan(plan)

PathScanUpdate ==
    /\ scan_count < MaxPathScans
    /\ \E laser_scan \in StackScans, plan_transform \in PlanTransforms,
          indeterminate \in IndeterminateInt8 :
            getLaserScanPoints(laser_scan, TRUE, [x |-> 0, y |-> 0, yaw |-> 0],
                               Filled(Len(global_plan_), TRUE),
                               plan_transform, indeterminate)

NextPath ==
    \/ \E costmap \in Costmaps : initialize(costmap)
    \/ PathSetPlan
    \/ PathScanUpdate

SpecPath == Init /\ [][NextPath]_vars

\* The obstacle pass on a costmap of 80 x 80 cells of 0.05 m (4 m x 4 m) with
\* the range window (0.1 m, 10 m): no plan, the lookup succeeds, and a scan
\* has up to two samples, at angle 0 and a quarter turn, with ranges of
\* 0.1 m, 0.5 m, 1 m, 2 m and 10 m.
Grid80 == [cellsX |-> 80, cellsY |-> 80, resolution |-> 2, metersX |-> 160, metersY |-> 160]

GridScans ==
    { [ranges |-> r, range_min |-> 4, range_max |-> 400,
       angle_min |-> 0, angle_increment |-> 1] :
         r \in { << >>, << 40 >>, << 80 >>, << 4, 40 >>, << 40, 400 >>, << 40, 20 >> } }

GridTransforms == { [x |-> 0, y |-> 0, yaw |-> 0], [x |-> -44, y |-> 3, yaw |-> 1] }

GridScanUpdate ==
    /\ scan_count < MaxGridScans
    /\ \E laser_scan \in GridScans, stamped_transform \in GridTransforms :
            getLaserScanPoints(laser_scan, TRUE, stamped_transform, << >>,
                               [x |-> 0, y |-> 0, yaw |-> 0], 0)

NextGrid ==
    \/ initialize(Grid80)
    \/ GridScanUpdate

SpecGrid == Init /\ [][NextGrid]_vars

\* The mapping from points to cells: costmaps of 3 x 2 and 4 x 3 cells, no
\* plan, and one scan with a single return, which the transform (a shift, the
\* lookup succeeds) puts on every point of a lattice of half cells that
\* covers the grid, its border and the points next to it.
MapCostmaps ==
    Costmaps \cup { [cellsX |-> 4, cellsY |-> 3, resolution |-> 2, metersX |-> 8, metersY |-> 6] }

MapScan == [ranges |-> << 2 >>, range_min |-> 1, range_max |-> 3,
            angle_min |-> 0, angle_increment |-> 1]

MapShifts == { [x |-> a, y |-> b, yaw |-> 0] : a \in -7..1, b \in -4..3 }

MapScanUpdate ==
    /\ scan_count < MaxMapScans
    /\ \E stamped_transform \in MapShifts :
            getLaserScanPoints(MapScan, TRUE, stamped_transform, << >>,
                               [x |-> 0, y |-> 0, yaw |-> 0], 0)

NextMap ==
    \/ \E costmap \in MapCostmaps : initialize(costmap)
    \/ MapScanUpdate

SpecMap == Init /\ [][NextMap]_vars

(***************************************************************************)
(* Properties.                                                             *)
(***************************************************************************)

\* the last call was the scan callback
AfterScan == last_call = "getLaserScanPoints"

\* cells of one costmap, and the length of a full buffer
CellCount == customized_costmap_.width * customized_costmap_.height

FullLength == Depth * CellCount

\* the transition published by the last call, if any
EmittedUnits == SelectSeq(sink, LAMBDA m : m.topic = "transition")

\* the costmaps published by the last call
PublishedCostmaps == SelectSeq(sink, LAMBDA m : m.topic = "customized_costmap")

\* concatenation of the data of entries from..to of the costmap log
RECURSIVE LayersOf(_, _, _)
LayersOf(log, from, to) ==
    IF from > to THEN << >>
    ELSE log[from].data \o LayersOf(log, from + 1, to)

\* C1: starting from an empty buffer, the Depth-th scan update publishes
\* exactly one transition of length width*height*Depth and leaves the buffer
\* empty, and after Depth-1 scan updates no transition has been published.
C1_DepthScansEmitOne ==
    /\ (scan_count = Depth - 1 => Len(transition_log) = 0)
    /\ (scan_count = Depth =>
            /\ transition_log = << Depth >>
            /\ transition_msg_.state_representation = << >>)

\* C2: the k-th transition is published during scan k*Depth, and no
\* transition is published during any other scan.
C2_PeriodIsDepth ==
    /\ Len(transition_log) = scan_count \div Depth
    /\ \A k \in 1..Len(transition_log) : transition_log[k] = k * Depth

\* C3: the costmap finished by a scan update is appended to what the buffer
\* held: afterwards it is the newest layer of the buffer, or of the
\* transition that this update published.
C3_EveryGridStacked ==
    AfterScan =>
        \/ transition_msg_.state_representation
             = last_run.buffer_before \o customized_costmap_.data
        \/ /\ Len(EmittedUnits) = 1
           /\ EmittedUnits[1].data = last_run.buffer_before \o customized_costmap_.data

\* C4: every published transition holds exactly Depth*width*height cells,
\* and they are the costmaps published by Depth consecutive scan updates,
\* concatenated oldest first.
C4_EmittedUnitComplete ==
    \A i \in 1..Len(EmittedUnits) :
        /\ Len(EmittedUnits[i].data) = FullLength
        /\ \E s \in 1..(Len(costmap_log) - Depth + 1) :
              /\ \A j \in 0..(Depth - 1) : costmap_log[s + j].scan = costmap_log[s].scan + j
              /\ EmittedUnits[i].data = LayersOf(costmap_log, s, s + Depth - 1)

\* a transition was just published whose layers are not all alike
C4_Witness ==
    /\ AfterScan
    /\ Len(EmittedUnits) = 1
    /\ Len(EmittedUnits[1].data) = FullLength
    /\ \E s \in 1..(Len(costmap_log) - Depth + 1) :
          /\ EmittedUnits[1].data = LayersOf(costmap_log, s, s + Depth - 1)
          /\ costmap_log[s].data # costmap_log[s + 1].data
          /\ costmap_log[s + 1].data # costmap_log[s + Depth - 1].data

\* C5: once the costmap is initialized, the buffer seen between calls is
\* strictly shorter than Depth*width*height.
C5_NeverLeftFull ==
    is_customized_costmap_initialized_ =>
        Len(transition_msg_.state_representation) < FullLength

\* C6: the buffer is never longer than depth*width*height of the transition
\* message, and its length is a whole number of costmaps.
C6_BufferWithinCapacity ==
    LET cells == transition_msg_.width * transition_msg_.height
        length == Len(transition_msg_.state_representation)
    IN  /\ length <= transition_msg_.depth * cells
        /\ (cells = 0 => length = 0)
        /\ (cells > 0 => length % cells = 0)

\* the buffer stands at its capacity
C6_Witness ==
    /\ CellCount > 0
    /\ transition_msg_.width * transition_msg_.height = CellCount
    /\ Len(transition_msg_.state_representation) = FullLength

\* the poses of the plan whose transform was available, in order
RECURSIVE AvailablePoses(_, _, _)
AvailablePoses(plan, pose_ok, k) ==
    IF k > Len(plan) THEN << >>
    ELSE (IF pose_ok[k] THEN << plan[k] >> ELSE << >>)
           \o AvailablePoses(plan, pose_ok, k + 1)

\* C7: when every pose of the plan transforms and exactly one of them maps
\* to a cell inside the grid, the scan update leaves the value 0 in that cell.
C7_SinglePointIsZero ==
    (/\ AfterScan
     /\ \A k \in 1..Len(last_run.pose_ok) : last_run.pose_ok[k]
     /\ Len(last_run.coords) = 1) =>
        customized_costmap_.data[DataIndex(last_run.coords[1].x, last_run.coords[1].y,
                                           customized_costmap_)] = 0

\* C8: a pose whose transform is unavailable is skipped: the cells written
\* by the path pass are those of the poses whose transform was available.
C8_FailedPoseSkipped ==
    AfterScan =>
        LET available == AvailablePoses(last_run.plan, last_run.pose_ok, 1)
        IN  last_run.coords
              = PlanMapCoordinates(available, Filled(Len(available), TRUE),
                                   last_run.plan_transform, customized_costmap_, costmap_)

\* C9: setPlan with an empty plan returns normally, and a scan update with
\* an empty plan leaves the costmap as the obstacle pass left it.
C9_EmptyPlanIsDefined ==
    /\ (last_call = "setPlan" /\ initialized_ /\ global_plan_ = << >>) =>
            (set_plan_result = "true" /\ ~uncaught_exception)
    /\ (AfterScan /\ last_run.plan = << >>) =>
            customized_costmap_.data = last_run.after_obstacles

\* C10: a scan update publishes exactly one customized costmap, the one it
\* finished, and publishes it first: a transition, if any, comes after it.
C10_CostmapPublishedFirst ==
    AfterScan =>
        /\ Len(PublishedCostmaps) = 1
        /\ sink[1].topic = "customized_costmap"
        /\ sink[1].data = customized_costmap_.data
        /\ sink[1].data
             = PathPass(last_run.after_obstacles, last_run.coords, customized_costmap_, 0)
        /\ Len(sink) = 1 + Len(EmittedUnits)
        /\ Len(EmittedUnits) <= 1

\* a scan update whose transform lookup failed published both messages,
\* with an obstacle and the plan drawn in the costmap
C10_Witness ==
    /\ AfterScan
    /\ ~last_run.lookup_ok
    /\ Len(sink) = 2
    /\ sink[2].topic = "transition"
    /\ last_run.after_obstacles # last_run.cleared
    /\ sink[1].data # last_run.after_obstacles

\* C11: sequence numbers are per message type and gap-free.  The costmap
\* counter equals the number of costmaps published so far and the transition
\* counter the number of transitions published so far, so the k-th message
\* of either type carries k - 1, one more than the one before it, and a
\* publication of one type leaves the other counter alone.
C11_SequenceNumbersGapFree ==
    /\ customized_costmap_.seq = scan_count
    /\ transition_msg_.seq = Len(transition_log)
    /\ AfterScan =>
         /\ Len(PublishedCostmaps) = 1
         /\ PublishedCostmaps[1].seq = scan_count - 1
         /\ \A i \in 1..Len(EmittedUnits) :
                EmittedUnits[i].seq = Len(transition_log) - 1

\* the second transition is published, by the tenth scan
C11_Witness ==
    /\ AfterScan
    /\ Len(transition_log) = 2
    /\ Len(EmittedUnits) = 1
    /\ EmittedUnits[1].seq = 1
    /\ PublishedCostmaps[1].seq = 2 * (Depth + 1) - 1

\* the geometry of the customized costmap
Geometry(grid) == << grid.width, grid.height, grid.resolution, grid.origin_x, grid.origin_y >>

\* C12: the customized costmap is initialized by the first scan and only by
\* it; from then on its width, height, resolution and origin are the ones
\* initialization took from the costmap, whatever the scans since have
\* written, and its data has width*height cells.
C12_GeometryFixedAfterInit ==
    /\ is_customized_costmap_initialized_ <=> scan_count >= 1
    /\ is_customized_costmap_initialized_ =>
         /\ Geometry(customized_costmap_)
              = Geometry(initializeCustomizedCostmap(costmap_))
         /\ Len(customized_costmap_.data) = CellCount

\* a later scan has cleared the costmap and written an obstacle into it
C12_Witness ==
    /\ AfterScan
    /\ scan_count >= 2
    /\ customized_costmap_.data # ClearedData(customized_costmap_)
    /\ Len(customized_costmap_.data) = CellCount

\* the values a cell of a published costmap may hold
CellValues == { Background, Occupied } \cup (PathStart - PathRange)..PathStart

\* C13: every cell of the costmap a scan update publishes is 70, 100 or a
\* path value in 0..50, for every scan and every plan whose poses all
\* transform, plans with no or one cell inside the grid included.
C13_CellValuesInRange ==
    (/\ AfterScan
     /\ \A k \in 1..Len(last_run.pose_ok) : last_run.pose_ok[k]) =>
        \A i \in 1..Len(PublishedCostmaps[1].data) :
            PublishedCostmaps[1].data[i] \in CellValues

\* the cells of the poses of plan from the k-th on, under plan_transform,
\* without those outside the grid
RECURSIVE ValidCells(_, _, _)
ValidCells(plan, k, plan_transform) ==
    IF k > Len(plan) THEN << >>
    ELSE LET c == MapCoordinate(TransformPose(plan[k], plan_transform),
                                customized_costmap_, costmap_)
         IN  (IF InBounds(c.x, c.y, customized_costmap_) THEN << c >> ELSE << >>)
               \o ValidCells(plan, k + 1, plan_transform)

\* 50 - round(i/(n-1)*50) for 0 <= i < n, n >= 2
LinearValue(i, n) == PathStart - ((2 * PathRange * i + (n - 1)) \div (2 * (n - 1)))

\* the i-th valid cell (from 0) is the last of the valid cells on its cell
LastOnCell(valid, i) == \A j \in (i + 2)..Len(valid) : valid[j] # valid[i + 1]

\* the value the published costmap holds at a cell
PublishedAt(c) == PublishedCostmaps[1].data[DataIndex(c.x, c.y, customized_costmap_)]

\* the valid cells of the last scan update are pairwise distinct
DistinctCells(valid) ==
    \A i, j \in 1..Len(valid) : i # j => valid[i] # valid[j]

\* C14: with N >= 2 valid cells, the cells written are those of the poses
\* inside the grid, in plan order (poses outside it are dropped and do not
\* count); the i-th of them is assigned 50 - round(i/(N-1)*50), which is 50
\* for the first, 0 for the last and never rises along the plan, and three
\* valid cells at distinct places hold exactly 50, 25, 0.
C14_LinearPathValues ==
    AfterScan =>
        LET valid == ValidCells(last_run.plan, 1, last_run.plan_transform)
            N == Len(valid)
        IN  N >= 2 =>
              /\ Len(last_run.coords) = N
              /\ \A i \in 0..(N - 1) :
                    /\ last_run.coords[i + 1] = valid[i + 1]
                    /\ LastOnCell(valid, i) => PublishedAt(valid[i + 1]) = LinearValue(i, N)
                    /\ \A j \in i..(N - 1) : LinearValue(j, N) <= LinearValue(i, N)
              /\ LinearValue(0, N) = PathStart
              /\ PublishedAt(valid[N]) = PathStart - PathRange
              /\ (N = 3 /\ DistinctCells(valid)) =>
                    << PublishedAt(valid[1]), PublishedAt(valid[2]), PublishedAt(valid[3]) >>
                      = << 50, 25, 0 >>

\* a plan of four poses, one of them outside the grid, draws three distinct
\* cells with 50, 25, 0
C14_Witness ==
    /\ AfterScan
    /\ Len(last_run.plan) = 4
    /\ Len(last_run.coords) = 3
    /\ DistinctCells(last_run.coords)
    /\ PublishedAt(last_run.coords[1]) = 50
    /\ PublishedAt(last_run.coords[2]) = 25
    /\ PublishedAt(last_run.coords[3]) = 0

\* C20: when several valid points of the plan map to one cell, the
\* published costmap holds in it the value of the last of them in plan
\* order, which is the smallest of their values.
C20_LatestPathPointWins ==
    AfterScan =>
        LET valid == last_run.coords
            N == Len(valid)
        IN  \A i, j \in 0..(N - 1) :
              (i < j /\ valid[i + 1] = valid[j + 1] /\ LastOnCell(valid, j)) =>
                  /\ PublishedAt(valid[j + 1]) = LinearValue(j, N)
                  /\ LinearValue(j, N) <= LinearValue(i, N)

\* the first and the third of three valid points share a cell, which holds
\* the third's 0 and not the first's 50
C20_Witness ==
    /\ AfterScan
    /\ Len(last_run.coords) = 3
    /\ last_run.coords[1] = last_run.coords[3]
    /\ last_run.coords[1] # last_run.coords[2]
    /\ PublishedAt(last_run.coords[3]) = 0
    /\ PublishedAt(last_run.coords[2]) = 25

\* the last scan update was the scenario of the 4 m x 4 m grid: 80 x 80
\* cells with origin (-2.0, -2.0), identity transform, no plan, and a scan
\* whose only sample has the given range at angle 0
GridScenario(range) ==
    /\ AfterScan
    /\ Geometry(customized_costmap_) = << 80, 80, 2, -80, -80 >>
    /\ costmap_.metersX = 160 /\ costmap_.metersY = 160
    /\ last_run.laser_scan.ranges = << range >>
    /\ last_run.laser_scan.angle_min = 0
    /\ last_run.stamped_transform = [x |-> 0, y |-> 0, yaw |-> 0]
    /\ last_run.plan = << >>

\* the published costmap has 100 in cell c and 70 everywhere else
OnlyCellOccupied(c) ==
    \A i \in 1..Len(PublishedCostmaps[1].data) :
        PublishedCostmaps[1].data[i]
          = IF i = DataIndex(c.x, c.y, customized_costmap_) THEN Occupied ELSE Background

\* C15 as stated: the sample of range 1.0 sets exactly cell (59, 39)
C15_RangeOneMarks59_39 ==
    GridScenario(40) => OnlyCellOccupied([x |-> 59, y |-> 39])

\* C15: in the scenario the sample of range 1.0 (40 units) sets exactly cell
\* (60, 40) to 100 and leaves every other cell at 70: the formula gives
\* round(59.5) and round(39.5), which round() takes away from zero.
C15_RangeOneMarks60_40 ==
    GridScenario(40) => OnlyCellOccupied([x |-> 60, y |-> 40])

\* the scenario with range 1.0 has run and cell (60, 40) holds 100
C15_Witness ==
    /\ GridScenario(40)
    /\ PublishedAt([x |-> 60, y |-> 40]) = Occupied
    /\ PublishedAt([x |-> 59, y |-> 39]) = Background

\* the indices of the cells that the in-range, in-bounds samples of the last
\* scan map to
HitIndices ==
    LET scan == last_run.laser_scan
        Cell(i) == MapCoordinate(ToRobotBaseFrame(ScanPoint(scan, i),
                                                  last_run.stamped_transform),
                                 customized_costmap_, costmap_)
    IN  { DataIndex(Cell(i).x, Cell(i).y, customized_costmap_) :
            i \in { k \in 0..(Len(scan.ranges) - 1) :
                      /\ scan.ranges[k + 1] > scan.range_min
                      /\ scan.ranges[k + 1] < scan.range_max
                      /\ Cell(k).x >= 0 /\ Cell(k).x < customized_costmap_.width
                      /\ Cell(k).y >= 0 /\ Cell(k).y < customized_costmap_.height } }

\* C16: after the obstacle pass a cell holds 100 if and only if a sample with
\* range_min < range < range_max maps to it inside the grid, and 70
\* otherwise; a single sample of range 2.0 on the 4 m x 4 m grid leaves every
\* cell at 70.
C16_ObstacleCellsExact ==
    AfterScan =>
        /\ Len(last_run.after_obstacles) = CellCount
        /\ LET hits == HitIndices
           IN  \A i \in 1..CellCount :
                 /\ last_run.after_obstacles[i] = Occupied <=> i \in hits
                 /\ last_run.after_obstacles[i] # Occupied =>
                        last_run.after_obstacles[i] = Background
        /\ GridScenario(80) => last_run.after_obstacles = last_run.cleared

\* a scan with one sample at range_min and one inside the window has marked
\* exactly one cell under the turned transform
C16_Witness ==
    /\ AfterScan
    /\ last_run.laser_scan.ranges = << 4, 40 >>
    /\ last_run.stamped_transform.yaw = 1
    /\ Cardinality(HitIndices) = 1
    /\ \E i \in HitIndices : last_run.after_obstacles[i] = Occupied

\* the point of the robot base frame that the only sample of the last scan
\* was put on, and the cell the mapping gives for it
SamplePoint == ToRobotBaseFrame(ScanPoint(last_run.laser_scan, 0), last_run.stamped_transform)

SampleCell == MapCoordinate(SamplePoint, customized_costmap_, costmap_)

\* the last scan update had a single sample, inside the range window
OneSampleScan ==
    /\ AfterScan
    /\ Len(last_run.laser_scan.ranges) = 1
    /\ last_run.laser_scan.ranges[1] > last_run.laser_scan.range_min
    /\ last_run.laser_scan.ranges[1] < last_run.laser_scan.range_max

\* the origin of the customized costmap, as a point
OriginPoint == [x |-> customized_costmap_.origin_x, y |-> customized_costmap_.origin_y]

\* c is (width/2, height/2) or next to it
AtOrNextToCentre(c) ==
    /\ 2 * c.x >= customized_costmap_.width - 2
    /\ 2 * c.x <= customized_costmap_.width + 2
    /\ 2 * c.y >= customized_costmap_.height - 2
    /\ 2 * c.y <= customized_costmap_.height + 2

\* C17 as stated: a sample on the grid's origin point maps to a valid cell
\* at or next to (width/2, height/2)
C17_OriginMapsToCentre ==
    (OneSampleScan /\ SamplePoint = OriginPoint) =>
        /\ InBounds(SampleCell.x, SampleCell.y, customized_costmap_)
        /\ AtOrNextToCentre(SampleCell)

\* C17: the point (0, 0) of the grid's frame, which is the middle of the
\* grid, maps to a valid cell at or next to (width/2, height/2), and a sample
\* on it marks that cell; the origin point is the outer corner of cell
\* (0, 0) and maps to (-1, -1), outside the grid, so that a sample on it
\* marks nothing.
C17_FrameZeroMapsToCentre ==
    is_customized_costmap_initialized_ =>
        LET centre == MapCoordinate([x |-> 0, y |-> 0], customized_costmap_, costmap_)
            corner == MapCoordinate(OriginPoint, customized_costmap_, costmap_)
        IN  /\ InBounds(centre.x, centre.y, customized_costmap_)
            /\ AtOrNextToCentre(centre)
            /\ corner = [x |-> -1, y |-> -1]
            /\ (OneSampleScan /\ SamplePoint = [x |-> 0, y |-> 0]) =>
                   last_run.after_obstacles
                     = [last_run.cleared EXCEPT
                          ![DataIndex(centre.x, centre.y, customized_costmap_)] = Occupied]
            /\ (OneSampleScan /\ SamplePoint = OriginPoint) =>
                   last_run.after_obstacles = last_run.cleared

\* a sample on the point (0, 0) of the frame has marked the cell in the
\* middle of the 4 x 3 grid
C17_Witness ==
    /\ OneSampleScan
    /\ customized_costmap_.width = 4
    /\ SamplePoint = [x |-> 0, y |-> 0]
    /\ SampleCell = [x |-> 2, y |-> 1]
    /\ last_run.after_obstacles[DataIndex(2, 1, customized_costmap_)] = Occupied

\* pt is the middle of cell (cx, cy): origin + (c + 0.5) * size/cells
IsCellCentre(pt, cx, cy) ==
    /\ 2 * customized_costmap_.width * (pt.x - customized_costmap_.origin_x)
         = (2 * cx + 1) * costmap_.metersX
    /\ 2 * customized_costmap_.height * (pt.y - customized_costmap_.origin_y)
         = (2 * cy + 1) * costmap_.metersY

\* C18: for every cell (cx, cy) of the grid, a point on the middle of the
\* cell maps to (cx, cy), is inside the grid, and a sample on it marks that
\* cell and no other.
C18_CellCentreRoundTrip ==
    OneSampleScan =>
        \A cx \in 0..(customized_costmap_.width - 1),
           cy \in 0..(customized_costmap_.height - 1) :
            IsCellCentre(SamplePoint, cx, cy) =>
                /\ SampleCell = [x |-> cx, y |-> cy]
                /\ InBounds(SampleCell.x, SampleCell.y, customized_costmap_)
                /\ last_run.after_obstacles
                     = [last_run.cleared EXCEPT
                          ![DataIndex(cx, cy, customized_costmap_)] = Occupied]

\* a sample on the middle of the last cell of the 4 x 3 grid has marked it
C18_Witness ==
    /\ OneSampleScan
    /\ customized_costmap_.width = 4
    /\ IsCellCentre(SamplePoint, 3, 2)
    /\ SampleCell = [x |-> 3, y |-> 2]
    /\ last_run.after_obstacles[DataIndex(3, 2, customized_costmap_)] = Occupied

\* the costmap a scan update publishes for the inputs of the last one, with
\* the transform of the scan read as given
GridFor(stamped_transform) ==
    PathPass(ObstaclePass(ClearedData(customized_costmap_), last_run.laser_scan,
                          stamped_transform, customized_costmap_, costmap_),
             PlanMapCoordinates(last_run.plan, last_run.pose_ok, last_run.plan_transform,
                                customized_costmap_, costmap_),
             customized_costmap_, 0)

\* C19: the costmap a scan update publishes is determined by the scan, the
\* transforms that were available and the plan: when every pose of the plan
\* transforms and the plan does not draw a single cell, the published
\* costmap is the one computed from these on an all-70 grid, and when the
\* lookup of the scan's transform failed, it is the same whatever the
\* transform object was left holding.
C19_GridFromCurrentInputs ==
    (/\ AfterScan
     /\ \A k \in 1..Len(last_run.pose_ok) : last_run.pose_ok[k]
     /\ Len(last_run.coords) # 1) =>
        \A held \in Transforms :
            PublishedCostmaps[1].data
              = GridFor(IF last_run.lookup_ok THEN last_run.stamped_transform ELSE held)

\* the indices of the cells the plan of the last scan update drew
PathIndices ==
    { DataIndex(last_run.coords[k].x, last_run.coords[k].y, customized_costmap_) :
        k \in 1..Len(last_run.coords) }

\* C21: the path pass runs after the obstacle pass, so in the published
\* costmap a cell hit both by an in-range scan return and by a point of the
\* plan holds a path value in 0..50 and not 100, and a cell that holds 100
\* is the cell of no point of the plan.
C21_PathOverObstacle ==
    AfterScan =>
        \A i \in 1..CellCount :
            /\ (i \in HitIndices /\ i \in PathIndices) =>
                   PublishedCostmaps[1].data[i] \in (PathStart - PathRange)..PathStart
            /\ PublishedCostmaps[1].data[i] = Occupied => i \notin PathIndices

====
